---------------------------- MODULE Spec2Model ----------------------------
(***************************************************************************)
(* A model of stackcollapse-callgrind.py: the reference resolver           *)
(* (lookup), the directive parser (parse_header, parse_body), the call     *)
(* graph model (class Function, lookup_f) and the stack collapser          *)
(* (print_stacks, the root loop of main).                                  *)
(*                                                                         *)
(* Lines of the input file are modelled after lexing: a line is a record   *)
(* that says which of the parser's regular expressions it matches and      *)
(* carries the matched groups.  A directive value is a token of one of the *)
(* three shapes lookup tells apart: "(N) value", "(N)" and anything else.  *)
(* Strings that the program builds (signatures, output lines, messages)    *)
(* are built here the same way, by concatenation.                          *)
(***************************************************************************)
EXTENDS Integers, Sequences, FiniteSets, TLC

VARIABLES
    pc,          \* where main stands: "header1", "body", "header2",
                 \* "collapse", "done", "error" (an uncaught exception)
    queue,       \* the lines of the input that are fixed and not yet consumed
    budget,      \* how many more lines the input may still turn out to have
    input,       \* the lines the input was fixed to have from the start
    state,       \* parse_body's dict `state`, on the keys that are ever read
    in_call,     \* parse_body's flag
    ob, fl, fn,  \* the three resolver tables
    functions,   \* the registry: signature -> Function
    forder,      \* the registry's insertion order (dict order)
    ri,          \* the root loop's position in functions.values()
    frames,      \* the activations of print_stacks, innermost last
    stack,       \* the deque of signatures shared by all activations
    out,         \* what was printed, line by line
    err,         \* the exception that ended the run, "" when none
    decl,        \* history: per (caller, callee), the sum of the cost lines
                 \*   that followed the caller's declarations of the callee
    lastcall,    \* history: the (caller, callee) of the last calls= line
    paired,      \* history: every calls= line so far was immediately
                 \*   followed by a cost line
    tcost,       \* history: per (object, file, name), the sum of the cost
                 \*   lines attributed to it as its own cost
    seen,        \* history of the body lines consumed: the last directive
                 \*   or cost line (line), how many cost lines (ncost),
                 \*   whether a calls= line came since the last cost line
                 \*   (sincecall), the cob and cfi directives since the last
                 \*   cost line of a call (ovr), the object and file that
                 \*   the context of the last calls= line gave its callee
                 \*   (expect), per table the numbers that directives
                 \*   defined (defd), whether no count and no cost so far
                 \*   was negative (poscount, poscost)
    rcall        \* the last call of lookup_ob, lookup_fl or lookup_fn made
                 \*   on its own: the table, the name, the tables before it,
                 \*   what it returned or raised, and (history) per table
                 \*   the value of the first "(N) value" resolved for N

vars == <<pc, queue, budget, input, state, in_call, ob, fl, fn, functions,
          forder, ri, frames, stack, out, err, decl, lastcall, paired, tcost,
          seen, rcall>>

---------------------------------------------------------------------------
(* Bounds of the model *)

\* how many lines an input that is not fixed from the start may have
MaxLines == 4
\* the highest back-reference number used by the resolver calls
MaxNum == 2
\* the highest call count of the two-caller inputs
MaxCount == 3
\* the highest self cost of the two-caller inputs
MaxCost == 6

---------------------------------------------------------------------------
(* Small helpers on functions and sequences *)

Put(f, k, v) == [x \in (DOMAIN f) \cup {k} |-> IF x = k THEN v ELSE f[x]]

Drop(f, ks) == [x \in (DOMAIN f) \ ks |-> f[x]]

Range(s) == {s[i] : i \in DOMAIN s}

Front(s) == SubSeq(s, 1, Len(s) - 1)

Last(s) == s[Len(s)]

EmptyMap == << >>

---------------------------------------------------------------------------
(* Tokens: the three shapes of a name that lookup tells apart *)

Def(n, v) == [form |-> "def", num |-> n, val |-> v]

Ref(n) == [form |-> "ref", num |-> n, val |-> ""]

Plain(v) == [form |-> "plain", num |-> 0, val |-> v]

NoErr == ""

\* raise Exception(num + " not found"), num being the text "(N)"
NotFound(n) == "(" \o ToString(n) \o ") not found"

\* lookup(table, name): the table afterwards, the value returned, the
\* exception raised
lookup_overwrite(table, name) ==
    IF name.form = "def"
    THEN [table |-> Put(table, name.num, name.val), val |-> name.val,
          err |-> NoErr]
    ELSE IF name.form = "ref"
    THEN IF name.num \notin DOMAIN table
         THEN [table |-> table, val |-> "", err |-> NotFound(name.num)]
         ELSE [table |-> table, val |-> table[name.num], err |-> NoErr]
    ELSE [table |-> table, val |-> name.val, err |-> NoErr]

lookup_lenient(table, name) ==
    IF name.form = "def"
    THEN [table |-> IF name.num \in DOMAIN table THEN table
                    ELSE Put(table, name.num, name.val),
          val |-> name.val, err |-> NoErr]
    ELSE IF name.form = "ref"
    THEN IF name.num \notin DOMAIN table
         THEN [table |-> table, val |-> "", err |-> NoErr]
         ELSE [table |-> table, val |-> table[name.num], err |-> NoErr]
    ELSE [table |-> table, val |-> name.val, err |-> NoErr]

lookup(table, name) ==
    IF name.form = "def"
    THEN [table |-> IF name.num \in DOMAIN table THEN table
                    ELSE Put(table, name.num, name.val),
          val |-> name.val, err |-> NoErr]
    ELSE IF name.form = "ref"
    THEN IF name.num \notin DOMAIN table
         THEN [table |-> table, val |-> "", err |-> NotFound(name.num)]
         ELSE [table |-> table, val |-> table[name.num], err |-> NoErr]
    ELSE [table |-> table, val |-> name.val, err |-> NoErr]

---------------------------------------------------------------------------
(* class Function.  A Function object is referred to by its key in the     *)
(* registry: every object the program uses is one lookup_f returned, that  *)
(* is, one stored in `functions`.                                          *)

Function(objectname, filename, name) ==
    [objectname |-> objectname, filename |-> filename, name |-> name,
     callfunctions |-> {}, calls |-> << >>,
     callcosts |-> EmptyMap, callcounts |-> EmptyMap,
     cost |-> 0, total_call_cost |-> 0, total_call_count |-> 0]

\* __str__
FunctionStr(f) == f.filename \o "#" \o f.name

\* __repr__
FunctionRepr(f) == f.objectname \o "#" \o f.filename \o "#" \o f.name

\* __eq__
FunctionEq(o, self) ==
    /\ o.objectname = self.objectname
    /\ o.filename = self.filename
    /\ o.name = self.name

\* add_call(self, callee, count), on the registry fns
add_call_once(fns, self, callee, count) ==
    LET new == callee \notin fns[self].callfunctions
        f1 == IF new
              THEN [fns EXCEPT ![self].calls = Append(@, callee),
                               ![self].callcosts = Put(@, callee, 0),
                               ![self].callcounts = Put(@, callee, 0),
                               ![self].callfunctions = @ \cup {callee}]
              ELSE fns
    IN  IF FunctionEq(f1[self], f1[callee])
        THEN f1
        ELSE LET f2 == [f1 EXCEPT ![self].callcosts[callee] = @ + 0,
                                  ![self].callcounts[callee] = @ + count]
             IN  IF new
                 THEN [f2 EXCEPT ![callee].total_call_count = @ + count]
                 ELSE f2

add_call(fns, self, callee, count) ==
    LET f1 == IF callee \notin fns[self].callfunctions
              THEN [fns EXCEPT ![self].calls = Append(@, callee),
                               ![self].callcosts = Put(@, callee, 0),
                               ![self].callcounts = Put(@, callee, 0),
                               ![self].callfunctions = @ \cup {callee}]
              ELSE fns
    IN  IF FunctionEq(f1[self], f1[callee])
        THEN f1
        ELSE LET f2 == [f1 EXCEPT ![self].callcosts[callee] = @ + 0,
                                  ![self].callcounts[callee] = @ + count]
             IN  [f2 EXCEPT ![callee].total_call_count = @ + count]

\* add_callcost(self, callee, cost), on the registry fns; calls[-1] of an
\* empty list raises IndexError
add_callcost(fns, self, callee, c) ==
    IF FunctionEq(fns[self], fns[callee])
    THEN [functions |-> fns, err |-> NoErr]
    ELSE IF Len(fns[self].calls) = 0
    THEN [functions |-> fns, err |-> "IndexError: list index out of range"]
    ELSE LET last == Last(fns[self].calls)
             f2 == [fns EXCEPT ![self].callcosts[last] = @ + c]
         IN  [functions |-> [f2 EXCEPT ![callee].total_call_cost = @ + c],
              err |-> NoErr]

\* add_cost(self, cost), on the registry fns
add_cost_minus(fns, self, c) == [fns EXCEPT ![self].cost = @ - c]

add_cost(fns, self, c) == [fns EXCEPT ![self].cost = @ + c]

---------------------------------------------------------------------------
(* The globals a handler reads and writes, as one record w:                *)
(*   [ob, fl, fn, functions, forder].                                      *)
(* A handler returns the globals afterwards and the exception it raised;   *)
(* what it wrote before raising stays written.                             *)

World == [ob |-> ob, fl |-> fl, fn |-> fn,
          functions |-> functions, forder |-> forder]

\* lookup_ob, lookup_fl, lookup_fn: lookup on the table of that name
lookup_ob(w, name) == lookup(w.ob, name)

lookup_fl(w, name) == lookup(w.fl, name)

lookup_fn(w, name) == lookup(w.fn, name)

\* lookup_f(ob, fl, fn): resolves the three names in this order, builds a
\* Function and registers it under its signature unless the signature is
\* registered already; returns the registered one (its key, f)
lookup_f(w, obname, flname, fnname) ==
    LET r1 == lookup_ob(w, obname)
        w1 == [w EXCEPT !.ob = r1.table]
        r2 == lookup_fl(w1, flname)
        w2 == [w1 EXCEPT !.fl = r2.table]
        r3 == lookup_fn(w2, fnname)
        w3 == [w2 EXCEPT !.fn = r3.table]
        func == Function(r1.val, r2.val, r3.val)
        signature == FunctionStr(func)
    IN  IF r1.err # NoErr THEN [w |-> w, f |-> "", err |-> r1.err]
        ELSE IF r2.err # NoErr THEN [w |-> w1, f |-> "", err |-> r2.err]
        ELSE IF r3.err # NoErr THEN [w |-> w2, f |-> "", err |-> r3.err]
        ELSE IF signature \notin DOMAIN w3.functions
        THEN [w |-> [w3 EXCEPT !.functions = Put(@, signature, func),
                               !.forder = Append(@, signature)],
              f |-> signature, err |-> NoErr]
        ELSE [w |-> w3, f |-> signature, err |-> NoErr]

\* the (object, file, name) that lookup_f resolves its arguments to
Resolved(w, obname, flname, fnname) ==
    <<lookup_ob(w, obname).val, lookup_fl(w, flname).val,
      lookup_fn(w, fnname).val>>

\* calls(state, param): param is the value of the calls= line, split on
\* blanks; state["cfn"] of a dict without that key raises KeyError, and
\* int("") (an empty value) raises ValueError
calls(w, st, param) ==
    LET r1 == lookup_f(w, st["ob"], st["fl"], st["fn"])
        r2 == lookup_f(r1.w, st["cob"], st["cfi"], st["cfn"])
    IN  IF r1.err # NoErr THEN [w |-> r1.w, err |-> r1.err]
        ELSE IF "cfn" \notin DOMAIN st
        THEN [w |-> r1.w, err |-> "KeyError: 'cfn'"]
        ELSE IF r2.err # NoErr THEN [w |-> r2.w, err |-> r2.err]
        ELSE IF Len(param) = 0
        THEN [w |-> r2.w, err |-> "ValueError: invalid literal for int()"]
        ELSE [w |-> [r2.w EXCEPT
                       !.functions = add_call(@, r1.f, r2.f, param[1])],
              err |-> NoErr]

\* callcost(state, param): param is the cost line, split on blanks;
\* costs[1] of a line of one field raises IndexError
callcost(w, st, param) ==
    LET r1 == lookup_f(w, st["ob"], st["fl"], st["fn"])
        r2 == lookup_f(r1.w, st["cob"], st["cfi"], st["cfn"])
        r3 == add_callcost(r2.w.functions, r1.f, r2.f, param[2])
    IN  IF r1.err # NoErr THEN [w |-> r1.w, err |-> r1.err]
        ELSE IF "cfn" \notin DOMAIN st
        THEN [w |-> r1.w, err |-> "KeyError: 'cfn'"]
        ELSE IF r2.err # NoErr THEN [w |-> r2.w, err |-> r2.err]
        ELSE IF Len(param) < 2
        THEN [w |-> r2.w, err |-> "IndexError: list index out of range"]
        ELSE [w |-> [r2.w EXCEPT !.functions = r3.functions],
              err |-> r3.err]

\* cost(state, param)
cost_first(w, st, param) ==
    LET r1 == lookup_f(w, st["ob"], st["fl"], st["fn"])
    IN  IF r1.err # NoErr THEN [w |-> r1.w, err |-> r1.err]
        ELSE IF Len(param) < 2
        THEN [w |-> r1.w, err |-> "IndexError: list index out of range"]
        ELSE [w |-> [r1.w EXCEPT
                       !.functions = add_cost(@, r1.f, param[1])],
              err |-> NoErr]

cost(w, st, param) ==
    LET r1 == lookup_f(w, st["ob"], st["fl"], st["fn"])
    IN  IF r1.err # NoErr THEN [w |-> r1.w, err |-> r1.err]
        ELSE IF Len(param) < 2
        THEN [w |-> r1.w, err |-> "IndexError: list index out of range"]
        ELSE [w |-> [r1.w EXCEPT
                       !.functions = add_cost(@, r1.f, param[2])],
              err |-> NoErr]

---------------------------------------------------------------------------
(* Lines, as the parser's regular expressions see them:                    *)
(*   "comment"  starts with #           "blank"  empty after strip()       *)
(*   "header"   has the shape key: value                                   *)
(*   "dir"      has the shape key=value                                    *)
(*   "cost"     starts with a digit, a sign or a star                      *)
(*   "other"    none of these                                              *)
(* tok is the value of a directive that names something; fields are the    *)
(* integers of a calls= value or of a cost line, split on blanks.          *)

Dir(key, tok) == [kind |-> "dir", key |-> key, tok |-> tok, fields |-> << >>]

CallsLine(fields) ==
    [kind |-> "dir", key |-> "calls", tok |-> Plain(""), fields |-> fields]

CostLine(fields) ==
    [kind |-> "cost", key |-> "", tok |-> Plain(""), fields |-> fields]

Simple(kind) == [kind |-> kind, key |-> "", tok |-> Plain(""), fields |-> << >>]

\* the keys of `state` that are read somewhere; the others (calls, fi, fe,
\* anything else) are written and never read
IdentityKeys == {"ob", "fl", "fn", "cob", "cfi", "cfn"}

\* alias = {"cfl": "cfi"}
Alias(key) == IF key = "cfl" THEN "cfi" ELSE key

\* the lines an input that is not fixed from the start is made of
LazyLines ==
    {Dir("ob", Plain("lib.so")),
     Dir("fl", Def(1, "file1.c")),
     Dir("fn", Plain("main")), Dir("fn", Def(1, "func1")), Dir("fn", Ref(1)),
     Dir("cob", Plain("lib.so")),
     Dir("cfi", Plain("file2.c")), Dir("cfl", Ref(1)),
     Dir("cfn", Plain("main")), Dir("cfn", Def(2, "func1")),
     Dir("cfn", Plain("func2")),
     Dir("fi", Def(2, "file2.c")), Dir("fe", Ref(2)),
     Dir("jump", Plain("1")),
     CallsLine(<<1, 50>>), CallsLine(<<2, 20>>), CallsLine(<<0, 20>>),
     CallsLine(<<-1, 20>>), CallsLine(<< >>),
     CostLine(<<16, 3>>), CostLine(<<16, -2>>), CostLine(<<16>>),
     Simple("comment"), Simple("blank"), Simple("header"), Simple("other")}

\* queue[0], as far as the input is fixed; any line when it is not
NextLines ==
    IF queue # << >> THEN {Head(queue)}
    ELSE IF budget > 0 THEN LazyLines ELSE {}

\* queue.popleft()
Popleft ==
    IF queue # << >>
    THEN queue' = Tail(queue) /\ budget' = budget
    ELSE queue' = << >> /\ budget' = budget - 1

\* the line l was looked at and stays at the head of the queue
Keep(l) ==
    IF queue # << >>
    THEN queue' = queue /\ budget' = budget
    ELSE queue' = <<l>> /\ budget' = budget - 1

gvars == <<ob, fl, fn, functions, forder>>

tvars == <<ri, frames, stack, out>>

hvars == <<decl, lastcall, paired, tcost, seen>>

SetWorld(w) ==
    /\ ob' = w.ob
    /\ fl' = w.fl
    /\ fn' = w.fn
    /\ functions' = w.functions
    /\ forder' = w.forder

\* an exception nobody catches ends the run
Raise(e) == pc' = "error" /\ err' = e

Continue == pc' = pc /\ err' = err

---------------------------------------------------------------------------
(* The history of the lines parse_body consumed, kept beside the parser's  *)
(* own variables and read by none of them                                  *)

Tables == {"ob", "fl", "fn"}

\* the table a directive's value is looked up in, sooner or later
TableOfKey(key) ==
    IF key \in {"ob", "cob"} THEN "ob"
    ELSE IF key \in {"fl", "fi", "fe", "cfi", "cfl"} THEN "fl"
    ELSE IF key \in {"fn", "cfn"} THEN "fn"
    ELSE ""

NoneSeen ==
    [line |-> Simple("blank"), ncost |-> 0, sincecall |-> FALSE,
     ovr |-> EmptyMap, expect |-> << >>,
     defd |-> [t \in Tables |-> EmptyMap],
     poscount |-> TRUE, poscost |-> TRUE]

SeenDirective(l) ==
    LET t == TableOfKey(l.key)
        s1 == [seen EXCEPT !.line = l]
        s2 == IF Alias(l.key) \in {"cob", "cfi"}
              THEN [s1 EXCEPT !.ovr = Put(@, Alias(l.key), l.tok)] ELSE s1
    IN  IF t # "" /\ l.tok.form = "def" /\ l.tok.num \notin DOMAIN seen.defd[t]
        THEN [s2 EXCEPT !.defd[t] = Put(@, l.tok.num, l.tok.val)]
        ELSE s2

\* the object and the file of the callee as the context of a calls= line
\* gives them: those of the cob and cfi directives since the last cost line
\* of a call, else the caller's ob and fl, resolved after the caller's names
ExpectedCallee ==
    LET caller == lookup_f(World, state["ob"], state["fl"], state["fn"])
        obtok == IF "cob" \in DOMAIN seen.ovr THEN seen.ovr["cob"]
                 ELSE state["ob"]
        fltok == IF "cfi" \in DOMAIN seen.ovr THEN seen.ovr["cfi"]
                 ELSE state["fl"]
    IN  <<lookup_ob(caller.w, obtok).val, lookup_fl(caller.w, fltok).val>>

SeenCalls(l, ok) ==
    [seen EXCEPT !.line = l, !.sincecall = TRUE,
                 !.expect = IF ok THEN ExpectedCallee ELSE << >>,
                 !.poscount = @ /\ (Len(l.fields) > 0 => l.fields[1] >= 0)]

SeenCost(l) ==
    [seen EXCEPT !.line = l, !.ncost = @ + 1, !.sincecall = FALSE,
                 !.ovr = IF seen.sincecall THEN EmptyMap ELSE @,
                 !.poscost = @ /\ (Len(l.fields) > 1 => l.fields[2] >= 0)]

---------------------------------------------------------------------------
(* parse_header *)

ParseHeaderSkip ==
    /\ pc \in {"header1", "header2"}
    /\ \E l \in NextLines : l.kind \in {"comment", "blank"} /\ Popleft
    /\ UNCHANGED <<pc, err, input, state, in_call, gvars, tvars, hvars, rcall>>

ParseHeaderKey ==
    /\ pc \in {"header1", "header2"}
    /\ \E l \in NextLines : l.kind = "header" /\ Popleft
    /\ UNCHANGED <<pc, err, input, state, in_call, gvars, tvars, hvars, rcall>>

\* the loop ends at the end of the input and at a line of another shape,
\* which is left in the queue
ParseHeaderEnd ==
    /\ pc \in {"header1", "header2"}
    /\ \/ queue = << >> /\ UNCHANGED <<queue, budget>>
       \/ \E l \in NextLines :
              l.kind \notin {"comment", "blank", "header"} /\ Keep(l)
    /\ pc' = IF pc = "header1" THEN "body" ELSE "collapse"
    /\ UNCHANGED <<err, input, state, in_call, gvars, tvars, hvars, rcall>>

---------------------------------------------------------------------------
(* parse_body *)

ParseBodySkip ==
    /\ pc = "body"
    /\ \E l \in NextLines : l.kind \in {"comment", "blank"} /\ Popleft
    /\ UNCHANGED <<pc, err, input, state, in_call, gvars, tvars, hvars, rcall>>

\* a directive other than calls=: state[key] = value, and for fi= and fe=
\* the value goes through lookup_fl
ParseBodyDirective ==
    /\ pc = "body"
    /\ \E l \in NextLines :
         /\ l.kind = "dir" /\ l.key # "calls"
         /\ Popleft
         /\ LET key == Alias(l.key)
                r == lookup_fl(World, l.tok)
            IN  /\ state' = IF key \in IdentityKeys
                            THEN Put(state, key, l.tok) ELSE state
                /\ IF key \in {"fi", "fe"}
                   THEN /\ fl' = r.table
                        /\ IF r.err # NoErr THEN Raise(r.err) ELSE Continue
                   ELSE fl' = fl /\ Continue
         /\ seen' = SeenDirective(l)
    /\ paired' = (paired /\ ~in_call)
    /\ UNCHANGED <<input, in_call, ob, fn, functions, forder, tvars,
                   decl, lastcall, tcost, rcall>>

\* the state of a calls= line after the defaults for cob and cfi
CallDefaults(st) ==
    LET s1 == IF "cob" \notin DOMAIN st /\ "ob" \in DOMAIN st
              THEN Put(st, "cob", st["ob"]) ELSE st
    IN  IF "cfi" \notin DOMAIN s1 /\ "fl" \in DOMAIN s1
        THEN Put(s1, "cfi", s1["fl"]) ELSE s1

ParseBodyCalls ==
    /\ pc = "body"
    /\ \E l \in NextLines :
         /\ l.kind = "dir" /\ l.key = "calls"
         /\ Popleft
         /\ LET st == CallDefaults(state)
                r == calls(World, st, l.fields)
                caller == lookup_f(World, st["ob"], st["fl"], st["fn"])
                callee == lookup_f(caller.w, st["cob"], st["cfi"], st["cfn"])
            IN  /\ state' = st
                /\ SetWorld(r.w)
                /\ seen' = SeenCalls(l, r.err = NoErr)
                /\ IF r.err # NoErr
                   THEN /\ Raise(r.err)
                        /\ UNCHANGED <<in_call, lastcall>>
                   ELSE /\ Continue
                        /\ in_call' = TRUE
                        /\ lastcall' = <<caller.f, callee.f>>
    /\ paired' = (paired /\ ~in_call)
    /\ UNCHANGED <<input, tvars, decl, tcost, rcall>>

\* a cost line: the cost of the call just declared, or the function's own
ParseBodyCost ==
    /\ pc = "body"
    /\ \E l \in NextLines :
         /\ l.kind = "cost"
         /\ Popleft
         /\ seen' = SeenCost(l)
         /\ IF in_call
            THEN LET r == callcost(World, state, l.fields)
                 IN  /\ SetWorld(r.w)
                     /\ IF r.err # NoErr
                        THEN /\ Raise(r.err)
                             /\ UNCHANGED <<in_call, state, decl, tcost>>
                        ELSE /\ Continue
                             /\ tcost' = tcost
                             /\ in_call' = FALSE
                             /\ state' = Drop(state, {"cob", "cfi"})
                             /\ decl' = Put(decl, lastcall,
                                   (IF lastcall \in DOMAIN decl
                                    THEN decl[lastcall] ELSE 0) + l.fields[2])
            ELSE LET r == cost(World, state, l.fields)
                     t == Resolved(World, state["ob"], state["fl"],
                                   state["fn"])
                 IN  /\ SetWorld(r.w)
                     /\ IF r.err # NoErr
                        THEN Raise(r.err) /\ tcost' = tcost
                        ELSE /\ Continue
                             /\ tcost' = Put(tcost, t,
                                   (IF t \in DOMAIN tcost THEN tcost[t]
                                    ELSE 0) + l.fields[2])
                     /\ UNCHANGED <<in_call, state, decl>>
    /\ UNCHANGED <<input, tvars, lastcall, paired, rcall>>

ParseBodyEnd ==
    /\ pc = "body"
    /\ \/ queue = << >> /\ UNCHANGED <<queue, budget>>
       \/ \E l \in NextLines : l.kind \in {"header", "other"} /\ Keep(l)
    /\ pc' = "header2"
    /\ paired' = (paired /\ ~in_call)
    /\ UNCHANGED <<err, input, state, in_call, gvars, tvars, decl, lastcall,
                   tcost, seen, rcall>>

---------------------------------------------------------------------------
(* print_stacks and the root loop of main *)

\* round(x) of the float x = n/d, d > 0: to the nearest integer, a tie to
\* the even one.  For the counts and costs of this model (d < 10) the
\* floats scale and scale * cost round as the exact quotient does.
RoundDown(n, d) == n \div d

RoundHalfEven(n, d) ==
    LET q == n \div d
        r == n % d
    IN  IF 2 * r < d THEN q
        ELSE IF 2 * r > d THEN q + 1
        ELSE IF q % 2 = 0 THEN q ELSE q + 1

\* scale: count / self.total_call_count, or 1.0
ScaleOne(self, count) == [n |-> 1, d |-> 1]

Scale(self, count) ==
    IF self.total_call_count > 0
    THEN [n |-> count, d |-> self.total_call_count]
    ELSE [n |-> 1, d |-> 1]

\* round(scale * x)
Scaled(scale, x) == RoundHalfEven(scale.n * x, scale.d)

RECURSIVE Join(_, _)
\* sep.join(s)
Join(s, sep) ==
    IF Len(s) = 0 THEN ""
    ELSE IF Len(s) = 1 THEN s[1]
    ELSE s[1] \o sep \o Join(Tail(s), sep)

\* print(";".join(stack), c): the text, and with it the path and the
\* number it was made of
Printed(stk, c) ==
    [text |-> Join(stk, ";") \o " " \o ToString(c), stack |-> stk, cost |-> c]

\* an activation print_stacks(stack, count, cost) of the Function f, at
\* its first statement
Activation(f, count, c) ==
    [f |-> f, count |-> count, cost |-> c, at |-> "begin", i |-> 0,
     scale |-> [n |-> 1, d |-> 1]]

\* signature in stack
OnStackNever(signature, stk) == FALSE

OnStack(signature, stk) == signature \in Range(stk)

\* what a leaf prints: the cost it was called with
LeafCostOwn(self, c) == self.cost

LeafCostBoth(self, c) == c + self.cost

LeafCost(self, c) == c

\* stack.pop()
PopNone(stk) == stk

Pop(stk) == Front(stk)

\* a function the traversal starts from
IsRootAny(func) == Len(func.calls) > 0

IsRoot(func) == func.total_call_count = 0 /\ Len(func.calls) > 0

\* for func in functions.values(): the next one, traversed if it is a root
MainRoot ==
    /\ pc = "collapse" /\ frames = << >>
    /\ ri <= Len(forder)
    /\ ri' = ri + 1
    /\ IF IsRoot(functions[forder[ri]])
       THEN frames' = <<Activation(forder[ri], 0, 0)>> /\ stack' = << >>
       ELSE UNCHANGED <<frames, stack>>
    /\ UNCHANGED <<pc, err, queue, budget, input, state, in_call, gvars, out,
                   hvars, rcall>>

MainDone ==
    /\ pc = "collapse" /\ frames = << >>
    /\ ri > Len(forder)
    /\ pc' = "done"
    /\ UNCHANGED <<err, queue, budget, input, state, in_call, gvars, tvars,
                   hvars, rcall>>

\* print_stacks from its first statement up to the loop over self.calls
\* (a function with callees), or up to its return (the cycle guard, a leaf)
PrintStacksBegin ==
    /\ pc = "collapse" /\ frames # << >> /\ Last(frames).at = "begin"
    /\ LET top == Last(frames)
           self == functions[top.f]
           signature == FunctionStr(self)
           pushed == Append(stack, signature)
           scale == Scale(self, top.count)
       IN  IF OnStack(signature, stack)
           THEN /\ frames' = Front(frames)
                /\ UNCHANGED <<pc, err, stack, out>>
           ELSE IF Len(self.calls) > 0
           THEN IF self.total_call_count > 0
                   /\ ~(top.count <= self.total_call_count)
                THEN /\ Raise("AssertionError")
                     /\ stack' = pushed
                     /\ UNCHANGED <<frames, out>>
                ELSE /\ stack' = pushed
                     /\ out' = Append(out,
                                  Printed(pushed, Scaled(scale, self.cost)))
                     /\ frames' = [frames EXCEPT ![Len(frames)] =
                                     [@ EXCEPT !.at = "loop", !.i = 1,
                                               !.scale = scale]]
                     /\ UNCHANGED <<pc, err>>
           ELSE /\ out' = Append(out, Printed(pushed, LeafCost(self, top.cost)))
                /\ frames' = Front(frames)
                /\ UNCHANGED <<pc, err, stack>>
    /\ UNCHANGED <<queue, budget, input, state, in_call, gvars, ri, hvars,
                   rcall>>

\* for f in self.calls: the call of f.print_stacks for the next callee
PrintStacksCall ==
    /\ pc = "collapse" /\ frames # << >> /\ Last(frames).at = "loop"
    /\ LET top == Last(frames)
           self == functions[top.f]
       IN  /\ top.i <= Len(self.calls)
           /\ LET f == self.calls[top.i]
                  callcost_f == self.callcosts[f]
                  callcount_f == self.callcounts[f]
              IN  frames' = Append(
                      [frames EXCEPT ![Len(frames)].i = @ + 1],
                      Activation(f, callcount_f, Scaled(top.scale, callcost_f)))
    /\ UNCHANGED <<pc, err, queue, budget, input, state, in_call, gvars, ri,
                   stack, out, hvars, rcall>>

\* the loop is over: stack.pop() and return
PrintStacksReturn ==
    /\ pc = "collapse" /\ frames # << >> /\ Last(frames).at = "loop"
    /\ Last(frames).i > Len(functions[Last(frames).f].calls)
    /\ stack' = Pop(stack)
    /\ frames' = Front(frames)
    /\ UNCHANGED <<pc, err, queue, budget, input, state, in_call, gvars, ri,
                   out, hvars, rcall>>

---------------------------------------------------------------------------
(* Inputs fixed from the start *)

\* the example input of the header comment
ExampleInput ==
    <<Simple("comment"), Simple("header"), Simple("blank"),
      Dir("fl", Def(1, "file1.c")), Dir("fn", Def(1, "main")),
      CostLine(<<16, 20>>),
      Dir("cfn", Def(2, "func1")), CallsLine(<<1, 50>>), CostLine(<<16, 400>>),
      Dir("cfi", Def(2, "file2.c")), Dir("cfn", Def(3, "func2")),
      CallsLine(<<3, 20>>), CostLine(<<16, 400>>),
      Simple("blank"),
      Dir("fn", Ref(2)), CostLine(<<51, 100>>),
      Dir("cfi", Ref(2)), Dir("cfn", Ref(3)),
      CallsLine(<<2, 20>>), CostLine(<<51, 300>>),
      Simple("blank"),
      Dir("fl", Ref(2)), Dir("fn", Ref(3)), CostLine(<<20, 700>>)>>

\* main declares calls of func1, of func2 and of func1 again
RedeclareInput ==
    <<Dir("fn", Plain("main")),
      Dir("cfn", Plain("func1")), CallsLine(<<1, 50>>), CostLine(<<16, 5>>),
      Dir("cfn", Plain("func2")), CallsLine(<<1, 50>>), CostLine(<<17, 7>>),
      Dir("cfn", Plain("func1")), CallsLine(<<1, 50>>), CostLine(<<18, 3>>)>>

\* main calls func2 c1 times and func1 calls it c2 times; func2 has the
\* cost s of its own and one callee, func3
TwoCallers(c1, c2, s) ==
    <<Dir("fn", Plain("main")),
      Dir("cfn", Plain("func2")), CallsLine(<<c1, 50>>), CostLine(<<16, 40>>),
      Dir("fn", Plain("func1")),
      Dir("cfn", Plain("func2")), CallsLine(<<c2, 50>>), CostLine(<<30, 60>>),
      Dir("fn", Plain("func2")), CostLine(<<50, s>>),
      Dir("cfn", Plain("func3")), CallsLine(<<1, 70>>), CostLine(<<51, 9>>)>>

TwoCallersInputs ==
    {TwoCallers(c1, c2, s) : c1 \in 1..MaxCount, c2 \in 1..MaxCount,
                             s \in 0..MaxCost}

\* main -> func1 -> func2 -> func1
CycleInput ==
    <<Dir("fn", Plain("main")), CostLine(<<1, 2>>),
      Dir("cfn", Plain("func1")), CallsLine(<<1, 50>>), CostLine(<<2, 10>>),
      Dir("fn", Plain("func1")), CostLine(<<50, 4>>),
      Dir("cfn", Plain("func2")), CallsLine(<<1, 60>>), CostLine(<<51, 8>>),
      Dir("fn", Plain("func2")), CostLine(<<60, 6>>),
      Dir("cfn", Plain("func1")), CallsLine(<<1, 50>>), CostLine(<<61, 5>>)>>

\* func1 -> func2 -> func1, the call back declared with the count 0, so
\* that func1 is a root
BackEdgeInput ==
    <<Dir("fn", Plain("func1")), CostLine(<<50, 4>>),
      Dir("cfn", Plain("func2")), CallsLine(<<1, 60>>), CostLine(<<51, 8>>),
      Dir("fn", Plain("func2")), CostLine(<<60, 6>>),
      Dir("cfn", Plain("func1")), CallsLine(<<0, 50>>), CostLine(<<61, 5>>)>>

\* func3 has a cost of its own and no call from or to it; main calls
\* nothing but itself
SelfOnlyInput ==
    <<Dir("fn", Plain("func3")), CostLine(<<1, 5>>),
      Dir("fn", Plain("main")),
      Dir("cfn", Plain("main")), CallsLine(<<2, 10>>), CostLine(<<11, 4>>),
      CostLine(<<12, 6>>)>>

\* main and func3 both call func1, which calls the leaf func2; main calls
\* the leaf func4; func3 calls func5, which calls the leaf func6
ChainInput ==
    <<Dir("fn", Plain("main")),
      Dir("cfn", Plain("func1")), CallsLine(<<1, 10>>), CostLine(<<1, 20>>),
      Dir("cfn", Plain("func4")), CallsLine(<<1, 40>>), CostLine(<<2, 5>>),
      Dir("fn", Plain("func3")),
      Dir("cfn", Plain("func1")), CallsLine(<<1, 10>>), CostLine(<<30, 20>>),
      Dir("cfn", Plain("func5")), CallsLine(<<1, 50>>), CostLine(<<31, 9>>),
      Dir("fn", Plain("func1")), CostLine(<<10, 3>>),
      Dir("cfn", Plain("func2")), CallsLine(<<1, 20>>), CostLine(<<11, 7>>),
      Dir("fn", Plain("func5")), CostLine(<<50, 2>>),
      Dir("cfn", Plain("func6")), CallsLine(<<1, 60>>), CostLine(<<51, 1>>)>>

\* main declares calls of func1, of itself and of func1 again
SelfEdgeInput ==
    <<Dir("fn", Plain("main")),
      Dir("cfn", Plain("func1")), CallsLine(<<1, 50>>), CostLine(<<16, 5>>),
      Dir("cfn", Plain("main")), CallsLine(<<2, 10>>), CostLine(<<17, 7>>),
      Dir("cfn", Plain("func1")), CallsLine(<<1, 50>>), CostLine(<<18, 3>>)>>

\* main declares 2 calls of func1 and func3 declares -1; func1 has a
\* callee
NegCountInput ==
    <<Dir("fn", Plain("main")),
      Dir("cfn", Plain("func1")), CallsLine(<<2, 50>>), CostLine(<<1, 1>>),
      Dir("fn", Plain("func3")),
      Dir("cfn", Plain("func1")), CallsLine(<<-1, 50>>), CostLine(<<2, 1>>),
      Dir("fn", Plain("func1")),
      Dir("cfn", Plain("func2")), CallsLine(<<1, 60>>), CostLine(<<3, 1>>)>>

\* main and func3 both call func1, the only caller of func2, which has a
\* cost of its own and calls the leaf func4
DiamondInput ==
    <<Dir("fn", Plain("main")),
      Dir("cfn", Plain("func1")), CallsLine(<<1, 10>>), CostLine(<<1, 20>>),
      Dir("fn", Plain("func3")),
      Dir("cfn", Plain("func1")), CallsLine(<<1, 10>>), CostLine(<<30, 20>>),
      Dir("fn", Plain("func1")), CostLine(<<10, 3>>),
      Dir("cfn", Plain("func2")), CallsLine(<<1, 20>>), CostLine(<<11, 7>>),
      Dir("fn", Plain("func2")), CostLine(<<20, 10>>),
      Dir("cfn", Plain("func4")), CallsLine(<<1, 40>>), CostLine(<<21, 4>>)>>

\* func1 has a cost of its own before main declares a call of it with an
\* object named by cob=
CalleeObjectInput ==
    <<Dir("fn", Plain("func1")), CostLine(<<1, 1>>),
      Dir("fn", Plain("main")), Dir("cob", Plain("lib.so")),
      Dir("cfn", Plain("func1")), CallsLine(<<1, 5>>), CostLine(<<2, 3>>)>>

\* main and func3 both call func1, which calls func2, a leaf with a cost
\* of its own
ScaledLeafInput ==
    <<Dir("fn", Plain("main")),
      Dir("cfn", Plain("func1")), CallsLine(<<1, 10>>), CostLine(<<1, 20>>),
      Dir("fn", Plain("func3")),
      Dir("cfn", Plain("func1")), CallsLine(<<1, 10>>), CostLine(<<30, 20>>),
      Dir("fn", Plain("func1")), CostLine(<<10, 3>>),
      Dir("cfn", Plain("func2")), CallsLine(<<1, 20>>), CostLine(<<11, 7>>),
      Dir("fn", Plain("func2")), CostLine(<<20, 9>>)>>

\* fn=(1) func1 is overwritten by fn=main before a cost line; (1) is used
\* after it
OverwrittenInput ==
    <<Dir("fn", Def(1, "func1")), Dir("fn", Plain("main")),
      CostLine(<<16, 3>>), Dir("fn", Ref(1)), CostLine(<<17, 4>>)>>

FixedInputs ==
    {ExampleInput, RedeclareInput, CycleInput, BackEdgeInput, SelfOnlyInput,
     ChainInput, SelfEdgeInput, NegCountInput, DiamondInput,
     CalleeObjectInput, OverwrittenInput, ScaledLeafInput}
    \cup TwoCallersInputs

---------------------------------------------------------------------------
(* The run of main on an input: one fixed from the start, or one of up to  *)
(* MaxLines lines of LazyLines, fixed line by line as the parser reads it  *)

NoCall == [table |-> "", name |-> Plain(""), val |-> "", err |-> NoErr,
           before |-> [t \in Tables |-> EmptyMap],
           first |-> [t \in Tables |-> EmptyMap]]

Init ==
    /\ input \in FixedInputs \cup {<< >>}
    /\ queue = input
    /\ budget = IF input = << >> THEN MaxLines ELSE 0
    /\ pc = "header1"
    /\ state = [ob |-> Plain("???"), fl |-> Plain("???"), fn |-> Plain("???")]
    /\ in_call = FALSE
    /\ ob = EmptyMap /\ fl = EmptyMap /\ fn = EmptyMap
    /\ functions = EmptyMap /\ forder = << >>
    /\ ri = 1 /\ frames = << >> /\ stack = << >> /\ out = << >>
    /\ err = NoErr
    /\ decl = EmptyMap /\ lastcall = <<"", "">> /\ paired = TRUE
    /\ tcost = EmptyMap
    /\ seen = NoneSeen
    /\ rcall = NoCall

\* a step of the traversal that follows parsing
Collapse ==
    \/ MainRoot
    \/ MainDone
    \/ PrintStacksBegin
    \/ PrintStacksCall
    \/ PrintStacksReturn

Next ==
    \/ ParseHeaderSkip
    \/ ParseHeaderKey
    \/ ParseHeaderEnd
    \/ ParseBodySkip
    \/ ParseBodyDirective
    \/ ParseBodyCalls
    \/ ParseBodyCost
    \/ ParseBodyEnd
    \/ Collapse

Spec == Init /\ [][Next]_vars

\* the traversal runs on: nothing but the program itself takes its steps,
\* and the interpreter takes the next one while there is one
FairSpec == Spec /\ WF_vars(Collapse)

---------------------------------------------------------------------------
(* The resolver on its own: calls of lookup_ob, lookup_fl and lookup_fn    *)
(* in any order on names of the three shapes, a caller catching what they  *)
(* raise.                                                                  *)

ResolverValues == {"foo", "bar"}

ResolverNames ==
    {Def(n, v) : n \in 1..MaxNum, v \in ResolverValues}
    \cup {Ref(n) : n \in 1..MaxNum}
    \cup {Plain(v) : v \in ResolverValues}

InitResolver ==
    /\ input = << >> /\ queue = << >> /\ budget = 0
    /\ pc = "lookup"
    /\ state = [ob |-> Plain("???"), fl |-> Plain("???"), fn |-> Plain("???")]
    /\ in_call = FALSE
    /\ ob = EmptyMap /\ fl = EmptyMap /\ fn = EmptyMap
    /\ functions = EmptyMap /\ forder = << >>
    /\ ri = 1 /\ frames = << >> /\ stack = << >> /\ out = << >>
    /\ err = NoErr
    /\ decl = EmptyMap /\ lastcall = <<"", "">> /\ paired = TRUE
    /\ tcost = EmptyMap
    /\ seen = NoneSeen
    /\ rcall = NoCall

\* the record of a call on table t that returned r
Called(t, name, r) ==
    [table |-> t, name |-> name, val |-> r.val, err |-> r.err,
     before |-> [ob |-> ob, fl |-> fl, fn |-> fn],
     first |-> IF name.form = "def" /\ name.num \notin DOMAIN rcall.first[t]
               THEN [rcall.first EXCEPT ![t] = Put(@, name.num, name.val)]
               ELSE rcall.first]

LookupOb ==
    /\ pc = "lookup"
    /\ \E name \in ResolverNames :
         LET r == lookup_ob(World, name)
         IN  ob' = r.table /\ rcall' = Called("ob", name, r)
    /\ UNCHANGED <<pc, err, queue, budget, input, state, in_call, fl, fn,
                   functions, forder, tvars, hvars>>

LookupFl ==
    /\ pc = "lookup"
    /\ \E name \in ResolverNames :
         LET r == lookup_fl(World, name)
         IN  fl' = r.table /\ rcall' = Called("fl", name, r)
    /\ UNCHANGED <<pc, err, queue, budget, input, state, in_call, ob, fn,
                   functions, forder, tvars, hvars>>

LookupFn ==
    /\ pc = "lookup"
    /\ \E name \in ResolverNames :
         LET r == lookup_fn(World, name)
         IN  fn' = r.table /\ rcall' = Called("fn", name, r)
    /\ UNCHANGED <<pc, err, queue, budget, input, state, in_call, ob, fl,
                   functions, forder, tvars, hvars>>

NextResolver == LookupOb \/ LookupFl \/ LookupFn

SpecResolver == InitResolver /\ [][NextResolver]_vars

---------------------------------------------------------------------------
(* What the claims speak of *)

TableOf(t) == IF t = "ob" THEN ob ELSE IF t = "fl" THEN fl ELSE fn

Texts(o) == [i \in DOMAIN o |-> o[i].text]

\* the functions that declared a call of c, c itself excepted
Callers(c) ==
    {f \in DOMAIN functions : f # c /\ c \in functions[f].callfunctions}

---------------------------------------------------------------------------
\* C1: on the example input of the header comment the run does not fail
\* and, once done, has printed exactly the four lines of the example
\* output, in that order.
C1_ExampleOutput ==
    input = ExampleInput =>
        /\ pc # "error"
        /\ pc = "done" =>
              Texts(out) = <<"file1.c#main 20",
                             "file1.c#main;file1.c#func1 100",
                             "file1.c#main;file1.c#func1;file2.c#func2 300",
                             "file1.c#main;file2.c#func2 400">>

C1_Witness ==
    /\ input = ExampleInput /\ pc = "done" /\ Len(out) = 4
    /\ functions["file2.c#func2"].cost = 700
    /\ functions["file2.c#func2"].total_call_count = 5

---------------------------------------------------------------------------
EdgeCost(f, c) ==
    IF c \in DOMAIN functions[f].callcosts
    THEN functions[f].callcosts[c] ELSE 0

EdgeCount(f, c) ==
    IF c \in DOMAIN functions[f].callcounts
    THEN functions[f].callcounts[c] ELSE 0

DeclCost(f, c) == IF <<f, c>> \in DOMAIN decl THEN decl[<<f, c>>] ELSE 0

RECURSIVE SumEdgeCost(_, _)
SumEdgeCost(fs, c) ==
    IF fs = {} THEN 0
    ELSE LET f == CHOOSE x \in fs : TRUE
         IN  EdgeCost(f, c) + SumEdgeCost(fs \ {f}, c)

Abs(x) == IF x < 0 THEN -x ELSE x

\* v is an integer nearest to n/d (d > 0)
NearestTo(v, n, d) == 2 * Abs(v * d - n) <= d

\* the lines printed for a path of two frames or more
Entering == {i \in DOMAIN out : Len(out[i].stack) >= 2}

\* of such a line: the function entered and the one it was entered from
Callee(i) == Last(out[i].stack)

Caller(i) == out[i].stack[Len(out[i].stack) - 1]

\* C2: while every calls= line was immediately followed by its cost line,
\* callCost[F][C] is the sum of the cost lines that followed F's
\* declarations of C, and C.totalInboundCost is the sum of callCost[F][C]
\* over the callers F of C.
C2_CallCostAttribution ==
    paired =>
        \A c \in DOMAIN functions :
            /\ \A f \in DOMAIN functions \ {c} :
                   EdgeCost(f, c) = DeclCost(f, c)
            /\ functions[c].total_call_cost =
                   SumEdgeCost(DOMAIN functions \ {c}, c)

\* the scale the caller of line i's callee was itself entered with is 1:
\* it is the root of the path, or it has no inbound count, or it came
\* with all of its inbound count
CallerWhole(i) ==
    LET p == out[i].stack
        c == functions[Caller(i)]
    IN  \/ Len(p) = 2
        \/ c.total_call_count <= 0
        \/ EdgeCount(p[Len(p) - 2], Caller(i)) = c.total_call_count

\* a callee with exactly one caller, invoked once
SingleCall(i) ==
    /\ Callers(Callee(i)) = {Caller(i)}
    /\ EdgeCount(Caller(i), Callee(i)) = 1

\* C3 as claimed: the line printed on entering a callee C that has exactly
\* one caller and is invoked once with the inclusive cost K carries K,
\* whether C is a leaf or not, whatever the callers of C's caller.
C3_SingleCallerCost ==
    \A i \in Entering :
        SingleCall(i) => out[i].cost = EdgeCost(Caller(i), Callee(i))

\* C3 amended: for a callee C with exactly one caller P, invoked once with
\* the inclusive cost K, the line printed on entering C carries C's own
\* cost when C has callees; when C is a leaf it carries the integer
\* nearest to scale_P * K, scale_P being the scale P was entered with,
\* which is K exactly when that scale is 1.
C3_SingleCallerCostAmended ==
    \A i \in Entering :
        SingleCall(i) =>
            LET c == functions[Callee(i)]
                p == functions[Caller(i)]
                k == EdgeCost(Caller(i), Callee(i))
                path == out[i].stack
            IN  /\ Len(c.calls) > 0 => out[i].cost = c.cost
                /\ (Len(c.calls) = 0 /\ CallerWhole(i)) => out[i].cost = k
                /\ (Len(c.calls) = 0 /\ ~CallerWhole(i)) =>
                       NearestTo(out[i].cost,
                                 EdgeCount(path[Len(path) - 2], Caller(i)) * k,
                                 p.total_call_count)

\* a leaf with one caller at the end of a path of three frames whose
\* middle frame was entered with a scale below 1, and a callee with
\* callees of its own whose cost differs from the cost of the call
C3_Witness ==
    /\ \E i \in Entering :
          /\ SingleCall(i) /\ Len(functions[Callee(i)].calls) = 0
          /\ ~CallerWhole(i)
          /\ out[i].cost # EdgeCost(Caller(i), Callee(i))
    /\ \E i \in Entering :
          /\ SingleCall(i) /\ Len(functions[Callee(i)].calls) = 0
          /\ CallerWhole(i) /\ out[i].cost # 0
    /\ \E i \in Entering :
          /\ SingleCall(i) /\ Len(functions[Callee(i)].calls) > 0
          /\ out[i].cost # EdgeCost(Caller(i), Callee(i))

NoDup(s) == \A i, j \in DOMAIN s : i # j => s[i] # s[j]

\* the activation on top is at its first statement and its signature is
\* on the path: the cycle guard is about to return
GuardCuts ==
    /\ pc = "collapse" /\ frames # << >> /\ Last(frames).at = "begin"
    /\ FunctionStr(functions[Last(frames).f]) \in Range(stack)

\* C5: the traversal, once begun, ends (in "done", or in "error"); no
\* signature is twice on the path, so the path is never longer than the
\* number of signatures, and there is at most one activation more than
\* the path is long (the one the guard is about to cut); on the graph
\* func1 -> func2 -> func1 the traversal from func1 prints one line for
\* func1 and one for func2 and nothing else.
C5_CycleTermination ==
    /\ [](/\ NoDup(stack)
          /\ Len(stack) <= Cardinality(DOMAIN functions)
          /\ Len(frames) <= Len(stack) + 1)
    /\ []((input = BackEdgeInput /\ pc = "done") =>
             [i \in DOMAIN out |-> out[i].stack]
                 = << <<"???#func1">>, <<"???#func1", "???#func2">> >>)
    /\ ((pc = "collapse") ~> (pc \in {"done", "error"}))

C5_Witness == input = BackEdgeInput /\ GuardCuts /\ Len(stack) = 2

StartsWith(i, f) == out[i].stack[1] = f

\* C6 as claimed: once the run is done, a function with the inbound count
\* 0 and a callee has a line that starts with it, a function with the
\* inbound count 0 and no callee is on no line at all, and no line starts
\* with a function whose inbound count is above 0.
C6_RootInclusion ==
    pc = "done" =>
        \A f \in DOMAIN functions :
            LET func == functions[f]
            IN  /\ (func.total_call_count = 0 /\ Len(func.calls) > 0) =>
                       \E i \in DOMAIN out : StartsWith(i, f)
                /\ (func.total_call_count = 0 /\ Len(func.calls) = 0) =>
                       \A i \in DOMAIN out : f \notin Range(out[i].stack)
                /\ func.total_call_count > 0 =>
                       \A i \in DOMAIN out : ~StartsWith(i, f)

\* C6 amended: once the run is done, a function with the inbound count 0
\* and a callee has a line that starts with it; no line starts with a
\* function that has the inbound count 0 and no callee, and such a
\* function is on no line at all unless some function declared a call of
\* it (with the count 0, or with counts that cancel); no line starts with
\* a function whose inbound count is above 0.
C6_RootInclusionAmended ==
    pc = "done" =>
        \A f \in DOMAIN functions :
            LET func == functions[f]
            IN  /\ (func.total_call_count = 0 /\ Len(func.calls) > 0) =>
                       \E i \in DOMAIN out : StartsWith(i, f)
                /\ (func.total_call_count = 0 /\ Len(func.calls) = 0) =>
                       /\ \A i \in DOMAIN out : ~StartsWith(i, f)
                       /\ Callers(f) = {} =>
                             \A i \in DOMAIN out : f \notin Range(out[i].stack)
                /\ func.total_call_count > 0 =>
                       \A i \in DOMAIN out : ~StartsWith(i, f)

\* main, whose only callee is itself, has its line; func3, with a cost of
\* its own and no call from or to it, has none
C6_Witness ==
    /\ pc = "done" /\ input = SelfOnlyInput
    /\ functions["???#main"].calls = <<"???#main">>
    /\ functions["???#func3"].cost = 5
    /\ Texts(out) = <<"???#main 6">>

\* C7: a run fails only with the resolver's undefined-reference error.
C7_OnlyResolverRaises ==
    pc = "error" =>
        \E n \in 0..9 : err = "(" \o ToString(n) \o ") not found"

\* C8: a call on the table T with "(N)", made after "(N) v" was resolved
\* through T for the first time, returns v; a call with "(N) w" returns w
\* and leaves T[N] at the v of the first one.
C8_WriteOnce ==
    /\ \A t \in Tables : \A n \in DOMAIN rcall.first[t] :
          n \in DOMAIN TableOf(t) /\ TableOf(t)[n] = rcall.first[t][n]
    /\ rcall.table # "" =>
          LET first == rcall.first[rcall.table]
              n == rcall.name.num
          IN  /\ (rcall.name.form = "ref" /\ n \in DOMAIN first) =>
                     rcall.err = NoErr /\ rcall.val = first[n]
              /\ rcall.name.form = "def" =>
                     /\ rcall.err = NoErr /\ rcall.val = rcall.name.val
                     /\ TableOf(rcall.table)[n] = first[n]

\* the last call redefined a number and got its own value back
C8_Witness ==
    /\ rcall.name.form = "def"
    /\ rcall.val # TableOf(rcall.table)[rcall.name.num]
    /\ rcall.before[rcall.table] # EmptyMap

\* C9: a call on the table T with "(N)", no "(N) value" having been
\* resolved through T before, raises the error that names N, whatever the
\* other two tables hold, and leaves the three tables as they were; a
\* name of neither shape is returned as it is and the tables stay as
\* they were.
C9_UndefinedReference ==
    rcall.table # "" =>
        LET n == rcall.name.num
            same == rcall.before = [ob |-> ob, fl |-> fl, fn |-> fn]
        IN  /\ (/\ rcall.name.form = "ref"
                /\ n \notin DOMAIN rcall.first[rcall.table]) =>
                   /\ rcall.err = "(" \o ToString(n) \o ") not found"
                   /\ same
            /\ rcall.name.form = "plain" =>
                   /\ rcall.err = NoErr /\ rcall.val = rcall.name.val
                   /\ same

\* the call failed on a number that both other tables define
C9_Witness ==
    /\ rcall.name.form = "ref" /\ rcall.err # NoErr
    /\ \A t \in Tables \ {rcall.table} : rcall.name.num \in DOMAIN TableOf(t)

\* C10: a function is the triple (object, file, name): each triple that
\* cost lines were attributed to has a node of its own, whose selfCost is
\* the sum of the cost lines attributed to that triple.
C10_TripleIdentity ==
    \A t \in DOMAIN tcost :
        \E f \in DOMAIN functions :
            /\ FunctionEq(functions[f],
                          [objectname |-> t[1], filename |-> t[2],
                           name |-> t[3]])
            /\ functions[f].cost = tcost[t]

---------------------------------------------------------------------------
\* C11: a function's declarations of calls of itself and the cost lines
\* of such calls change no accumulator, so that the count and the cost of
\* the edge from a function to itself are 0 at all times.
C11_RecursionInvisible ==
    \A f \in DOMAIN functions :
        f \in functions[f].callfunctions =>
            /\ functions[f].callcounts[f] = 0
            /\ functions[f].callcosts[f] = 0

---------------------------------------------------------------------------
\* a line as print made it: one frame or more, each the signature of a
\* registered function, joined by ";", a blank, and a number that is not
\* negative
WellFormed(o) ==
    /\ Len(o.stack) >= 1
    /\ \A k \in DOMAIN o.stack :
          /\ o.stack[k] \in DOMAIN functions
          /\ o.stack[k] = functions[o.stack[k]].filename \o "#"
                              \o functions[o.stack[k]].name
    /\ o.cost >= 0
    /\ o.text = Join(o.stack, ";") \o " " \o ToString(o.cost)

\* C12 as claimed: every line printed is well formed, its cost not
\* negative, whatever input the parser accepted.
C12_OutputFormat == \A i \in DOMAIN out : WellFormed(out[i])

\* C12 amended: every line printed is well formed, its cost not negative,
\* when no call count and no cost (the second field of a cost line) of the
\* input is negative.
C12_OutputFormatAmended ==
    (seen.poscount /\ seen.poscost) => \A i \in DOMAIN out : WellFormed(out[i])

\* all eight lines of the input with the shared callee are printed, some
\* with a cost above 0, some after scaling
C12_Witness ==
    /\ input = DiamondInput /\ pc = "done" /\ Len(out) = 8
    /\ seen.poscount /\ seen.poscost
    /\ out[2].cost = 2 /\ Len(out[4].stack) = 4

---------------------------------------------------------------------------
\* C13: a run that ended in an error has printed nothing, and whatever
\* was printed was printed after the parser's last step.
C13_AllOrNothing ==
    /\ pc = "error" => out = << >>
    /\ out # << >> => pc \in {"collapse", "done", "error"}

---------------------------------------------------------------------------
\* the own cost and the inbound cost of the function x in the registry
\* fns, 0 when it is not registered
OwnCost(fns, x) == IF x \in DOMAIN fns THEN fns[x].cost ELSE 0

InboundCost(fns, x) == IF x \in DOMAIN fns THEN fns[x].total_call_cost ELSE 0

\* this step consumed a cost line and did not fail
CostStep == seen'.ncost = seen.ncost + 1 /\ pc' # "error"

\* C14: a cost line consumed after a calls= line with no cost line
\* between them changes no function's own cost and adds its second field
\* to the inbound cost of the callee (unless the callee is the caller), and
\* the next cost line is not taken for a call's cost again; any other cost
\* line adds its second field to the own cost of the function that ob, fl
\* and fn name at that line, and changes no other own cost and no inbound
\* cost.
C14_CostLineAttribution ==
    [][CostStep =>
         LET c == seen'.line.fields[2]
             caller == lookup_f(World, state["ob"], state["fl"], state["fn"])
             callee == lookup_f(caller.w, state["cob"], state["cfi"],
                                state["cfn"])
             all == DOMAIN functions'
         IN  IF seen.sincecall
             THEN /\ \A x \in all :
                        OwnCost(functions', x) = OwnCost(functions, x)
                  /\ \A x \in all :
                        InboundCost(functions', x) =
                            InboundCost(functions, x)
                            + (IF x = callee.f /\ x # caller.f THEN c ELSE 0)
                  /\ ~seen'.sincecall
             ELSE /\ \A x \in all :
                        OwnCost(functions', x) =
                            OwnCost(functions, x)
                            + (IF x = caller.f THEN c ELSE 0)
                  /\ \A x \in all :
                        InboundCost(functions', x) = InboundCost(functions, x)
    ]_vars

\* cfn=func2, calls=1 50, 16 3, 16 3: the first cost line went to the call
\* and the second to the caller's own cost
C14_Witness ==
    /\ input = << >> /\ seen.ncost = 2 /\ ~seen.sincecall
    /\ DOMAIN functions = {"???#???", "???#func2"}
    /\ functions["???#???"].cost = 3
    /\ functions["???#func2"].total_call_cost = 3
    /\ functions["???#func2"].cost = 0

---------------------------------------------------------------------------
\* C15: the callee of a calls= line has the object and the file of the
\* cob and cfi (cfl) directives consumed since the last cost line of a
\* call, and otherwise the caller's ob and fl as they stand at that calls=
\* line; once the cost line of a call is consumed (the run going on), cob
\* and cfi are in the context only if a directive set them since.
C15_CalleeOverride ==
    /\ seen.expect # << >> =>
          /\ functions[lastcall[2]].objectname = seen.expect[1]
          /\ functions[lastcall[2]].filename = seen.expect[2]
    /\ (~seen.sincecall /\ pc # "error") =>
          \A k \in {"cob", "cfi"} :
              k \in DOMAIN state => k \in DOMAIN seen.ovr

---------------------------------------------------------------------------
\* the scale the k-th frame of the path p was entered with: 1 for the
\* first frame and for a function without inbound count, else the count of
\* the edge it was entered by over its inbound count
PathScale(p, k) ==
    IF k = 1 \/ functions[p[k]].total_call_count <= 0
    THEN [n |-> 1, d |-> 1]
    ELSE [n |-> EdgeCount(p[k - 1], p[k]),
          d |-> functions[p[k]].total_call_count]

\* C16: the line of a path that ends at a function without callees
\* carries round(parentScale * callCost[parent][leaf]), whatever the
\* leaf's own cost; the line of a path that ends at a function with
\* callees carries round(scale * selfCost); no path has two lines, and
\* once the run is done every callee of a path's last function that is
\* not on the path has the line of the path that it extends.
C16_LeafRule ==
    /\ \A i \in DOMAIN out :
          LET p == out[i].stack
              n == Len(p)
              self == functions[p[n]]
          IN  IF Len(self.calls) = 0
              THEN /\ n >= 2
                   /\ out[i].cost =
                          RoundHalfEven(PathScale(p, n - 1).n
                                            * EdgeCost(p[n - 1], p[n]),
                                        PathScale(p, n - 1).d)
              ELSE out[i].cost =
                       RoundHalfEven(PathScale(p, n).n * self.cost,
                                     PathScale(p, n).d)
    /\ \A i, j \in DOMAIN out : out[i].stack = out[j].stack => i = j
    /\ pc = "done" =>
          \A i \in DOMAIN out :
              \A c \in Range(functions[Last(out[i].stack)].calls)
                        \ Range(out[i].stack) :
                  \E j \in DOMAIN out : out[j].stack = Append(out[i].stack, c)

\* a leaf with the cost 9 of its own, called with the cost 7 by a function
\* entered with the scale 1/2: it is printed with round(3.5), on both paths
C16_Witness ==
    /\ pc = "done" /\ input = ScaledLeafInput
    /\ \E i, j \in DOMAIN out :
          /\ i # j
          /\ Len(out[i].stack) = 3 /\ Len(out[j].stack) = 3
          /\ Last(out[i].stack) = Last(out[j].stack)
          /\ Len(functions[Last(out[i].stack)].calls) = 0
          /\ functions[Last(out[i].stack)].cost = 9
          /\ EdgeCost(out[i].stack[2], out[i].stack[3]) = 7
          /\ PathScale(out[i].stack, 2) = [n |-> 1, d |-> 2]
          /\ out[i].cost = 4 /\ out[j].cost = 4

---------------------------------------------------------------------------
\* the names that the line consumed last had looked up, each with its
\* table: those of the context, and the value of an fi= or fe= line
Uses ==
    {<<TableOfKey(k), state[k]>> : k \in DOMAIN state}
    \cup (IF seen.line.key \in {"fi", "fe"}
          THEN {<<"fl", seen.line.tok>>} ELSE {})

\* C17: once a directive with the value "(N) value" was consumed, "(N)"
\* resolves to that value in the directive's namespace: the table holds
\* no other value for N, and a run fails with "(N) not found" only when
\* the line it failed at used "(N)" in a namespace where no directive had
\* defined N.
C17_BackReferences ==
    /\ \A t \in Tables : \A n \in DOMAIN seen.defd[t] :
          n \in DOMAIN TableOf(t) => TableOf(t)[n] = seen.defd[t][n]
    /\ pc = "error" =>
          \A n \in 0..9 :
              err = NotFound(n) =>
                  \E u \in Uses :
                      u[2] = Ref(n) /\ n \notin DOMAIN seen.defd[u[1]]

---------------------------------------------------------------------------
\* the callees of the functions of S
Succ(S) == UNION {Range(functions[x].calls) : x \in S}

RECURSIVE Closure(_)
Closure(S) == IF Succ(S) \subseteq S THEN S ELSE Closure(S \cup Succ(S))

\* no function is reached from itself by one call or more
Acyclic == \A f \in DOMAIN functions : f \notin Closure(Succ({f}))

\* the lines whose path ends at c
LinesOf(c) == {i \in DOMAIN out : Last(out[i].stack) = c}

RECURSIVE SumCost(_)
SumCost(is) ==
    IF is = {} THEN 0
    ELSE LET i == CHOOSE x \in is : TRUE
         IN  out[i].cost + SumCost(is \ {i})

\* C18: on an acyclic call graph (built from counts and costs that are
\* not negative) the costs of the lines whose path ends at a function
\* with callees add up to no more than that function's own cost plus one
\* for each such line.
C18_CostConservation ==
    (Acyclic /\ seen.poscount /\ seen.poscost) =>
        \A c \in DOMAIN functions :
            Len(functions[c].calls) > 0 =>
                SumCost(LinesOf(c))
                    <= functions[c].cost + Cardinality(LinesOf(c))

---------------------------------------------------------------------------
RECURSIVE SumEdgeCount(_, _)
SumEdgeCount(fs, c) ==
    IF fs = {} THEN 0
    ELSE LET f == CHOOSE x \in fs : TRUE
         IN  EdgeCount(f, c) + SumEdgeCount(fs \ {f}, c)

\* C19: when no call count of the input is negative, the assertion of
\* print_stacks never fails: a function's inbound count is the sum of the
\* counts of the edges to it from the other functions, every activation
\* of a function with callees and an inbound count above 0 was given a
\* count between 0 and that inbound count, and every scale is between 0
\* and 1.
C19_AssertionHolds ==
    seen.poscount =>
        /\ err # "AssertionError"
        /\ \A c \in DOMAIN functions :
              functions[c].total_call_count =
                  SumEdgeCount(DOMAIN functions \ {c}, c)
        /\ \A k \in DOMAIN frames :
              LET self == functions[frames[k].f]
              IN  /\ (Len(self.calls) > 0 /\ self.total_call_count > 0) =>
                         /\ 0 <= frames[k].count
                         /\ frames[k].count <= self.total_call_count
                  /\ frames[k].at = "loop" =>
                         /\ 0 <= frames[k].scale.n
                         /\ frames[k].scale.n <= frames[k].scale.d

\* the traversal is inside a function that it entered with 1 of the 3
\* calls of it, past the assertion
C19_Witness ==
    /\ pc = "collapse" /\ seen.poscount /\ Len(frames) = 2
    /\ frames[2].at = "loop" /\ frames[2].scale = [n |-> 1, d |-> 3]
    /\ functions[frames[2].f].total_call_count = 3

---------------------------------------------------------------------------
\* the activations that pushed their signature: all but one at its first
\* statement
Pushed == SelectSeq(frames, LAMBDA a : a.at = "loop")

\* C20: the path holds no signature twice; while the run has not failed,
\* the path is the signatures of the activations that are past their
\* first statement, in the order of the calls, and only the innermost
\* activation can be at its first statement, so that every activation that
\* has returned (a leaf, one cut by the cycle guard, one whose loop is
\* over) left the path as it was when it was called; every line of two
\* frames or more comes after a line of the same path less its last frame.
C20_PathStackDiscipline ==
    /\ NoDup(stack)
    /\ pc # "error" =>
          /\ stack = [k \in DOMAIN Pushed |->
                         FunctionStr(functions[Pushed[k].f])]
          /\ \A k \in DOMAIN frames :
                frames[k].at = "begin" => k = Len(frames)
    /\ \A i \in DOMAIN out :
          Len(out[i].stack) > 1 =>
              \E j \in 1..(i - 1) : out[j].stack = Front(out[i].stack)

\* the cycle guard has just cut an activation short and the path of three
\* signatures is as the caller had it
C20_Witness ==
    /\ input = CycleInput /\ pc = "collapse"
    /\ Len(frames) = 3 /\ Last(frames).at = "loop" /\ Last(frames).i = 2
    /\ stack = <<"???#main", "???#func1", "???#func2">>
    /\ Len(out) = 3

=============================================================================
